---- MODULE Spec2Model ----
(***************************************************************************)
(* FileStore of tus-node-server (src/lib/stores/FileStore.js): the         *)
(* filesystem store of a resumable-upload server, with its three           *)
(* operations create, write and getOffset.                                 *)
(*                                                                         *)
(* Strings are sequences of chunks (a chunk is a character or a fixed      *)
(* piece such as ".tmp"), so that path derivation is concatenation and     *)
(* two different identifiers can derive the same path.  The storage        *)
(* directory is a map from paths to what is there: nothing (ENOENT), a     *)
(* directory, or a regular file holding a sequence of symbols.             *)
(*                                                                         *)
(* Three specifications: Spec, one call at a time on a filesystem whose    *)
(* calls fail only when the storage state makes them fail; SpecFaults,     *)
(* one call at a time on a filesystem whose calls can also fail on their   *)
(* own; SpecConcurrent, two calls under way at once.                       *)
(***************************************************************************)
EXTENDS Integers, Sequences, FiniteSets, TLC

\* ------------------------------------------------------------------ bounds
\* Longest request body, in bytes.
MaxChunk == 1
\* Number of operations (create, write, getOffset, external interference)
\* started in one run.
MaxOps == 3

\* ---------------------------------------------------------------- strings
\* JavaScript's undefined: a header that was not sent, a missing field.
Undefined == <<"undefined">>

\* The storage directory (options.directory).
directory == <<"files">>

\* The identifiers callers use and the naming function may return.
FileIds == { <<"a">>, <<"a", ".tmp">> }

\* `${this.directory}/${file_id}`
filePath(file_id) == directory \o <<"/">> \o file_id

\* `${this.directory}/${file_id}.info`
infoPath(file_id) == directory \o <<"/">> \o file_id \o <<".info">>

\* `${path}.tmp`, the staging path of a write call.
tempChunkPath(file_id) == filePath(file_id) \o <<".tmp">>

Paths ==
    UNION { {filePath(i), infoPath(i), tempChunkPath(i)} : i \in FileIds }

\* ------------------------------------------------------------ file contents
\* What a regular file holds: data bytes and the tokens of a JSON text.
Byte(x) == [t |-> "byte", v |-> <<x>>]
ZeroByte == Byte("0")
PayloadBytes == { Byte("1"), Byte("2") }

NoEntry == [kind |-> "ENOENT", data |-> <<>>]
Dir == [kind |-> "dir", data |-> <<>>]
RegularFile(data) == [kind |-> "file", data |-> data]

IsFile(node) == node.kind = "file"

\* Writing as flags 'w' would: the file is truncated when it is opened, so
\* only the hole before `start` and the written bytes are left.
WriteAtTruncating(old, start, bytes) ==
    IF bytes = <<>> THEN <<>>
    ELSE [i \in 1..(start + Len(bytes)) |->
            IF i > start THEN bytes[i - start] ELSE ZeroByte]

\* The bytes of a file after writing `bytes` at position `start`: a write
\* beyond the end leaves a hole that reads as zero bytes, and what lies
\* after the written range stays.  A stream that is given no byte never
\* writes, so the file is as it was.
WriteAt(old, start, bytes) ==
    LET end == start + Len(bytes)
        n == IF Len(old) > end THEN Len(old) ELSE end
    IN  IF bytes = <<>> THEN old
        ELSE [i \in 1..n |->
                IF i > start /\ i <= end THEN bytes[i - start]
                ELSE IF i <= Len(old) THEN old[i]
                ELSE ZeroByte]

\* ----------------------------------------------------------- upload record
\* new File(file_id, upload_length, upload_defer_length, upload_metadata)
File(file_id, upload_length, upload_defer_length, upload_metadata) ==
    [id |-> file_id,
     upload_length |-> upload_length,
     upload_defer_length |-> upload_defer_length,
     upload_metadata |-> upload_metadata]

NoFile == File(Undefined, Undefined, Undefined, Undefined)

RecordKeys ==
    <<"id", "upload_length", "upload_defer_length", "upload_metadata">>

LBrace == [t |-> "{", v |-> <<>>]
RBrace == [t |-> "}", v |-> <<>>]

\* JSON.stringify(file): the members in order, those that are undefined
\* left out.
RECURSIVE Members(_, _)
Members(file, k) ==
    IF k > Len(RecordKeys) THEN <<>>
    ELSE LET key == RecordKeys[k]
             rest == Members(file, k + 1)
         IN  IF file[key] = Undefined THEN rest
             ELSE <<[t |-> key, v |-> file[key]]>> \o rest

\* A serialisation that loses the upload_defer_length member.
JSONStringifyWithoutDefer(file) ==
    <<LBrace>> \o Members([file EXCEPT !.upload_defer_length = Undefined], 1)
        \o <<RBrace>>

JSONStringify(file) == <<LBrace>> \o Members(file, 1) \o <<RBrace>>

\* Whether JSON.parse accepts the text as an object (it throws otherwise).
JSONWellFormed(text) ==
    /\ Len(text) >= 2
    /\ text[1] = LBrace
    /\ text[Len(text)] = RBrace
    /\ \A i \in 2..(Len(text) - 1) :
          \E k \in 1..Len(RecordKeys) : text[i].t = RecordKeys[k]

\* obj[key] of the parsed object: undefined when the text has no such member.
Member(text, key) ==
    LET at == { i \in 2..(Len(text) - 1) : text[i].t = key }
    IN  IF at = {} THEN Undefined
        ELSE text[CHOOSE i \in at : \A j \in at : j <= i].v

\* What getFileInfo returns: null, or the parsed record.
NullConfig == [null |-> TRUE, file |-> NoFile]

JSONParse(text) ==
    [null |-> FALSE,
     file |-> File(Member(text, "id"), Member(text, "upload_length"),
                   Member(text, "upload_defer_length"),
                   Member(text, "upload_metadata"))]

\* getFileInfo(file_id) on the storage `disk`: readFileSync and JSON.parse,
\* any exception caught and turned into null.
getFileInfo(disk, file_id) ==
    LET node == disk[infoPath(file_id)]
    IN  IF IsFile(node) /\ JSONWellFormed(node.data)
        THEN JSONParse(node.data)
        ELSE NullConfig

\* Whether writeFileInfo(file) throws: write-file-atomic renames a temporary
\* file onto the target, which fails when the target is a directory.
writeFileInfoThrows(disk, file) == disk[infoPath(file.id)].kind = "dir"

\* The storage after writeFileInfo(file) has replaced the .info file.
writeFileInfo(disk, file) ==
    [disk EXCEPT ![infoPath(file.id)] = RegularFile(JSONStringify(file))]

\* ------------------------------------------------------- numbers, digests
NaN == -1

Digits == <<"0", "1", "2", "3", "4", "5", "6", "7", "8", "9">>

IsDigit(ch) == \E d \in 1..Len(Digits) : Digits[d] = ch

DigitValue(ch) == (CHOOSE d \in 1..Len(Digits) : Digits[d] = ch) - 1

\* The value of the leading decimal digits of s, given the value acc of the
\* digits read so far.
RECURSIVE ParseDigits(_, _)
ParseDigits(s, acc) ==
    IF s = <<>> \/ ~IsDigit(Head(s)) THEN acc
    ELSE ParseDigits(Tail(s), acc * 10 + DigitValue(Head(s)))

\* parseInt(s, 10): NaN for undefined and for a string with no leading digit.
ParseInt(s) ==
    IF s = Undefined \/ s = <<>> \/ ~IsDigit(Head(s)) THEN NaN
    ELSE ParseDigits(s, 0)

\* The hash runs over the symbols of the file, in order.
HashModulus == 65536

SymbolCode(sym) == IF sym.t = "byte" THEN DigitValue(sym.v[1]) + 1 ELSE 0

RECURSIVE HashUpdate(_, _)
HashUpdate(h, data) ==
    IF data = <<>> THEN h
    ELSE HashUpdate((h * 4 + SymbolCode(Head(data))) % HashModulus, Tail(data))

\* shasum.digest('base64') of the data.
Sha1Base64(data) == <<ToString(HashUpdate(0, data))>>

\* calculateSHA1File(fn): the digest of what the file at fn holds.
calculateSHA1File(disk, fn) == Sha1Base64(disk[fn].data)

\* str.split(' '): the fields between the separators.
RECURSIVE SplitFrom(_, _, _)
SplitFrom(str, sep, field) ==
    IF str = <<>> THEN <<field>>
    ELSE IF Head(str) = sep
         THEN <<field>> \o SplitFrom(Tail(str), sep, <<>>)
         ELSE SplitFrom(Tail(str), sep, Append(field, Head(str)))

Split(str, sep) == SplitFrom(str, sep, <<>>)

\* fields[k] with JavaScript's zero-based index: undefined past the end.
At(fields, k) == IF k + 1 <= Len(fields) THEN fields[k + 1] ELSE Undefined

\* ------------------------------------------------------------------ inputs
\* The Upload-Length header: not sent, or a length a body can have.
LengthHeaders == {Undefined} \cup { <<Digits[n + 1]>> : n \in 1..MaxChunk }
DeferHeaders == {Undefined, <<"1">>}
MetadataHeaders == {Undefined}

Bodies == UNION { [1..n -> PayloadBytes] : n \in 0..MaxChunk }
\* The starting offsets callers supply.
Offsets == 0..MaxChunk

\* Upload-Checksum: "<algorithm> <digest>", or not sent.  The digest sent
\* is that of one body, so it is right for that body and wrong for the rest.
DeclaredDigest == Sha1Base64(<<Byte("1")>>)
ChecksumHeaders ==
    { Undefined, <<"sha1", " ">> \o DeclaredDigest,
      <<"md5", " ">> \o DeclaredDigest }

NoHeaders ==
    [upload_length |-> Undefined, upload_defer_length |-> Undefined,
     upload_metadata |-> Undefined, upload_checksum |-> Undefined]

\* ERRORS of ../constants, and the codes of the system errors passed through.
Errors ==
    {"INVALID_LENGTH", "FILE_WRITE_ERROR", "CHECKSUM_ALGORITHM_UNSUPPORTED",
     "CHECKSUM_MISMATCH", "FILE_NO_LONGER_EXISTS", "FILE_NOT_FOUND",
     "EISDIR", "ENOENT", "EIO"}

\* ------------------------------------------------------------------- state
\* The calls that can be under way; Calls names their slots.
Calls == {1}

VARIABLES
    fs,             \* the storage directory: path -> what is there
    calls,          \* per slot: the operation, its position and its locals
    fileCreated,    \* per identifier: EVENT_FILE_CREATED notifications emitted
    uploadComplete, \* per identifier: EVENT_UPLOAD_COMPLETE notifications
    issued,         \* the identifiers generateFileName has returned
    ops,            \* operations started so far
    contiguous      \* per identifier: the writes since create were successful
                    \* and contiguous from 0 up to this offset (-1: they were not)

vars == <<fs, calls, fileCreated, uploadComplete, issued, ops, contiguous>>

\* stats of a path merged with the record: Object.assign(stats, config).
Stats(size, config) ==
    [size |-> size,
     upload_length |-> config.file.upload_length,
     upload_defer_length |-> config.file.upload_defer_length,
     upload_metadata |-> config.file.upload_metadata]

NoStats == Stats(0, NullConfig)

\* How a promise stands: pending, resolved with a value or rejected with an
\* error.  `offset` is the value write resolves with, `file` the one create
\* resolves with, `stats` the one getOffset resolves with.
Pending == [state |-> "pending", error |-> "", offset |-> 0,
            file |-> NoFile, stats |-> NoStats]
Rejected(e) == [Pending EXCEPT !.state = "rejected", !.error = e]
ResolvedOffset(n) == [Pending EXCEPT !.state = "resolved", !.offset = n]
ResolvedFile(f) == [Pending EXCEPT !.state = "resolved", !.file = f]
ResolvedStats(st) == [Pending EXCEPT !.state = "resolved", !.stats = st]

\* The outcome of getOffset(file_id) given the record read when it was
\* called and the storage at the time of the stat.
getOffsetOutcome(disk, file_id, config) ==
    LET node == disk[filePath(file_id)]
    IN  IF node.kind = "ENOENT" /\ ~config.null
            THEN Rejected("FILE_NO_LONGER_EXISTS")
        ELSE IF node.kind = "ENOENT"
            THEN Rejected("FILE_NOT_FOUND")
        ELSE IF node.kind = "dir"
            THEN Rejected("FILE_NOT_FOUND")
        ELSE ResolvedStats(Stats(Len(node.data), config))

\* getOffset(file_id) with nothing happening between its two steps.
GetOffsetNow(disk, file_id) ==
    getOffsetOutcome(disk, file_id, getFileInfo(disk, file_id))

IdleCall ==
    [op |-> "none", pc |-> "idle", file_id |-> Undefined, offset |-> 0,
     start |-> 0, body |-> <<>>, headers |-> NoHeaders, new_offset |-> 0,
     staged |-> FALSE, cut |-> FALSE, file |-> NoFile, config |-> NullConfig,
     result |-> Pending,
     pre |-> [node |-> NoEntry, view |-> Rejected("FILE_NOT_FOUND")]]

\* No operation is under way (callers issue one operation at a time).
Quiet == \A c \in Calls : calls[c].pc = "idle"

\* A store that lets a call begin only when no other call is under way.
IdleAndAlone(c) == \A d \in DOMAIN calls : calls[d].pc = "idle"

\* The slot c holds no call: a new call can begin in it.  Nothing in the
\* store makes a call wait for another one.
Idle(c) == calls[c].pc = "idle"

Init ==
    /\ fs = [p \in Paths |-> NoEntry]
    /\ calls = [c \in Calls |-> IdleCall]
    /\ fileCreated = [i \in FileIds |-> 0]
    /\ uploadComplete = [i \in FileIds |-> 0]
    /\ issued = {}
    /\ ops = 0
    /\ contiguous = [i \in FileIds |-> -1]

\* ------------------------------------------------------------------ create
\* What generateFileName(req) can do: throw, or return an identifier it has
\* not returned before.
GenerateThrows == <<"throw">>
generateFileName == {GenerateThrows} \cup (FileIds \ issued)

\* create(req) up to the call of fs.open: the length check, the naming
\* function, the File object.
create(c, upload_length, upload_defer_length, upload_metadata, name) ==
    LET hdrs == [NoHeaders EXCEPT !.upload_length = upload_length,
                                  !.upload_defer_length = upload_defer_length,
                                  !.upload_metadata = upload_metadata]
        begun == [IdleCall EXCEPT !.op = "create", !.headers = hdrs]
    IN  /\ Idle(c)
        /\ ops < MaxOps
        /\ name \in generateFileName
        /\ ops' = ops + 1
        /\ IF upload_length = Undefined /\ upload_defer_length = Undefined
           THEN /\ calls' = [calls EXCEPT ![c] =
                        [begun EXCEPT !.pc = "done",
                                      !.result = Rejected("INVALID_LENGTH")]]
                /\ issued' = issued
           ELSE IF name = GenerateThrows
           THEN /\ calls' = [calls EXCEPT ![c] =
                        [begun EXCEPT !.pc = "done",
                                      !.result = Rejected("FILE_WRITE_ERROR")]]
                /\ issued' = issued
           ELSE /\ calls' = [calls EXCEPT ![c] =
                        [begun EXCEPT !.pc = "open", !.file_id = name,
                            !.file = File(name, upload_length,
                                          upload_defer_length, upload_metadata)]]
                /\ issued' = issued \cup {name}
        /\ UNCHANGED <<fs, fileCreated, uploadComplete, contiguous>>

\* The callback of fs.open emitting the created event itself, as soon as the
\* data file is there and before the record is written.
createOpenedEmitting(c) ==
    LET call == calls[c]
        path == filePath(call.file_id)
        opened == [fs EXCEPT ![path] = RegularFile(<<>>)]
    IN  /\ call.op = "create" /\ call.pc = "open"
        /\ IF fs[path].kind = "dir"
           THEN /\ fs' = fs
                /\ fileCreated' = fileCreated
                /\ calls' = [calls EXCEPT ![c].pc = "done",
                                          ![c].result = Rejected("EISDIR")]
           ELSE /\ fs' = IF writeFileInfoThrows(opened, call.file) THEN opened
                         ELSE writeFileInfo(opened, call.file)
                /\ fileCreated' = [fileCreated EXCEPT ![call.file_id] =
                                        fileCreated[call.file_id] + 1]
                /\ calls' = IF writeFileInfoThrows(opened, call.file)
                            THEN [calls EXCEPT ![c].pc = "done",
                                               ![c].result = Rejected("EISDIR")]
                            ELSE [calls EXCEPT ![c].pc = "close"]
        /\ UNCHANGED <<uploadComplete, issued, ops, contiguous>>

\* The callback of fs.open(filepath, 'w'): the file is there, empty, unless
\* the path is a directory; then writeFileInfo, then fs.close is called.
createOpened(c) ==
    LET call == calls[c]
        path == filePath(call.file_id)
        opened == [fs EXCEPT ![path] = RegularFile(<<>>)]
    IN  /\ call.op = "create" /\ call.pc = "open"
        /\ IF fs[path].kind = "dir"
           THEN /\ fs' = fs
                /\ calls' = [calls EXCEPT ![c].pc = "done",
                                          ![c].result = Rejected("EISDIR")]
           ELSE IF writeFileInfoThrows(opened, call.file)
           THEN /\ fs' = opened
                /\ calls' = [calls EXCEPT ![c].pc = "done",
                                          ![c].result = Rejected("EISDIR")]
           ELSE /\ fs' = writeFileInfo(opened, call.file)
                /\ calls' = [calls EXCEPT ![c].pc = "close"]
        /\ UNCHANGED <<fileCreated, uploadComplete, issued, ops, contiguous>>

\* The callback of fs.close: the created event, then the promise resolves.
createClosed(c) ==
    LET call == calls[c]
    IN  /\ call.op = "create" /\ call.pc = "close"
        /\ fileCreated' =
              [fileCreated EXCEPT ![call.file_id] = fileCreated[call.file_id] + 1]
        /\ calls' = [calls EXCEPT ![c].pc = "done",
                                  ![c].result = ResolvedFile(call.file)]
        /\ contiguous' = [contiguous EXCEPT ![call.file_id] = 0]
        /\ UNCHANGED <<fs, uploadComplete, issued, ops>>

\* --------------------------------------------------------------- getOffset
\* getOffset(file_id) up to the call of fs.stat: the record is read now.
getOffset(c, file_id) ==
    /\ Idle(c)
    /\ ops < MaxOps
    /\ ops' = ops + 1
    /\ calls' = [calls EXCEPT ![c] =
          [IdleCall EXCEPT !.op = "getOffset", !.pc = "stat",
                           !.file_id = file_id,
                           !.config = getFileInfo(fs, file_id)]]
    /\ UNCHANGED <<fs, fileCreated, uploadComplete, issued, contiguous>>

\* A stat that opened the file for writing first, as flags 'w' do: a regular
\* file at the path is emptied.
StattedTruncating(disk, file_path) ==
    IF IsFile(disk[file_path])
    THEN [disk EXCEPT ![file_path] = RegularFile(<<>>)]
    ELSE disk

\* The storage after fs.stat(file_path): as it was.
Statted(disk, file_path) == disk

\* The callback of fs.stat.
getOffsetStat(c) ==
    LET call == calls[c]
    IN  /\ call.op = "getOffset" /\ call.pc = "stat"
        /\ fs' = Statted(fs, filePath(call.file_id))
        /\ calls' = [calls EXCEPT ![c].pc = "done",
              ![c].result = getOffsetOutcome(fs, call.file_id, call.config)]
        /\ UNCHANGED <<fileCreated, uploadComplete, issued, ops, contiguous>>

\* ------------------------------------------------------------------- write
\* The writes on file_id since its create are no longer a contiguous run of
\* successes.
Broken(file_id) == [contiguous EXCEPT ![file_id] = -1]

\* write(req, file_id, offset) up to the first byte of the request: the
\* staging file is opened with flags 'w' (created or truncated); a staging
\* path that is a directory makes the stream emit 'error'.
write(c, file_id, offset, body, upload_checksum) ==
    LET tmp == tempChunkPath(file_id)
        begun == [IdleCall EXCEPT
                    !.op = "write", !.file_id = file_id, !.offset = offset,
                    !.start = offset, !.body = body,
                    !.headers = [NoHeaders EXCEPT
                                    !.upload_checksum = upload_checksum],
                    !.pre = [node |-> fs[filePath(file_id)],
                             view |-> GetOffsetNow(fs, file_id)]]
    IN  /\ Idle(c)
        /\ ops < MaxOps
        /\ ops' = ops + 1
        /\ IF fs[tmp].kind = "dir"
           THEN /\ fs' = fs
                /\ calls' = [calls EXCEPT ![c] =
                        [begun EXCEPT !.pc = "done",
                                      !.result = Rejected("FILE_WRITE_ERROR")]]
                /\ contiguous' = Broken(file_id)
           ELSE /\ fs' = [fs EXCEPT ![tmp] = RegularFile(<<>>)]
                /\ calls' = [calls EXCEPT ![c] = [begun EXCEPT !.pc = "staging"]]
                /\ contiguous' =
                      IF contiguous[file_id] = offset THEN contiguous
                      ELSE Broken(file_id)
        /\ UNCHANGED <<fileCreated, uploadComplete, issued>>

\* The bytes of the request body that arrived go to the staging file, and
\* the 'data' listener has counted them.
Staged(disk, file_id, bytes) ==
    LET tmp == tempChunkPath(file_id)
    IN  IF IsFile(disk[tmp])
        THEN [disk EXCEPT ![tmp] = RegularFile(WriteAt(disk[tmp].data, 0, bytes))]
        ELSE disk

\* The request piped straight into the data file at `offset`, with no
\* staging file in between.
writeStagedIntoData(c) ==
    LET call == calls[c]
        path == filePath(call.file_id)
    IN  /\ call.op = "write" /\ call.pc = "staging"
        /\ fs' = IF IsFile(fs[path])
                 THEN [fs EXCEPT ![path] =
                        RegularFile(WriteAt(fs[path].data, call.offset, call.body))]
                 ELSE fs
        /\ calls' = [calls EXCEPT ![c].pc = "finish", ![c].staged = TRUE,
                                  ![c].new_offset = Len(call.body)]
        /\ UNCHANGED <<fileCreated, uploadComplete, issued, ops, contiguous>>

\* The request delivers its whole body and ends: the staging stream
\* finishes.
writeStaged(c) ==
    LET call == calls[c]
    IN  /\ call.op = "write" /\ call.pc = "staging"
        /\ fs' = Staged(fs, call.file_id, call.body)
        /\ calls' = [calls EXCEPT ![c].pc = "finish", ![c].staged = TRUE,
                                  ![c].new_offset = Len(call.body)]
        /\ UNCHANGED <<fileCreated, uploadComplete, issued, ops, contiguous>>

\* The request is cut short after k bytes, fewer than its body: it never ends, pipe
\* does not end the staging stream, and no handler of the call runs again.
writeSourceCut(c, k) ==
    LET call == calls[c]
    IN  /\ call.op = "write" /\ call.pc = "staging"
        /\ k \in 0..(Len(call.body) - 1)
        /\ fs' = Staged(fs, call.file_id, SubSeq(call.body, 1, k))
        /\ calls' = [calls EXCEPT ![c].pc = "stalled", ![c].cut = TRUE,
                                  ![c].new_offset = k]
        /\ contiguous' = Broken(call.file_id)
        /\ UNCHANGED <<fileCreated, uploadComplete, issued, ops>>

\* The algorithm check with its condition inverted.
algorithmUnsupportedInverted(upload_checksum_algorithm) ==
    upload_checksum_algorithm = <<"sha1">>

\* upload_checksum_algorithm !== 'sha1'
algorithmUnsupported(upload_checksum_algorithm) ==
    upload_checksum_algorithm # <<"sha1">>

\* The digest check comparing the declared value with itself.
checksumMismatchSelfCompare(upload_checksum_value, sha1hash) ==
    upload_checksum_value # upload_checksum_value

\* upload_checksum_value !== sha1hash
checksumMismatch(upload_checksum_value, sha1hash) ==
    upload_checksum_value # sha1hash

\* The 'finish' handler of the staging stream up to the await: the
\* Upload-Checksum header is split and its algorithm checked.
writeFinish(c) ==
    LET call == calls[c]
        upload_checksum == call.headers.upload_checksum
        upload_checksum_algorithm == At(Split(upload_checksum, " "), 0)
    IN  /\ call.op = "write" /\ call.pc = "finish"
        /\ IF upload_checksum = Undefined
           THEN /\ calls' = [calls EXCEPT ![c].pc = "commit"]
                /\ contiguous' = contiguous
           ELSE IF algorithmUnsupported(upload_checksum_algorithm)
           THEN /\ calls' = [calls EXCEPT ![c].pc = "done",
                    ![c].result = Rejected("CHECKSUM_ALGORITHM_UNSUPPORTED")]
                /\ contiguous' = Broken(call.file_id)
           ELSE /\ calls' = [calls EXCEPT ![c].pc = "hash"]
                /\ contiguous' = contiguous
        /\ UNCHANGED <<fs, fileCreated, uploadComplete, issued, ops>>

\* After the await: the digest of the staging file against the declared
\* one.  A staging file that is gone makes the read stream emit an 'error'
\* nobody listens to, and the call never settles.
writeHashed(c) ==
    LET call == calls[c]
        tmp == tempChunkPath(call.file_id)
        upload_checksum_value == At(Split(call.headers.upload_checksum, " "), 1)
    IN  /\ call.op = "write" /\ call.pc = "hash"
        /\ IF ~IsFile(fs[tmp])
           THEN /\ calls' = [calls EXCEPT ![c].pc = "stalled"]
                /\ contiguous' = Broken(call.file_id)
           ELSE IF checksumMismatch(upload_checksum_value,
                                    calculateSHA1File(fs, tmp))
           THEN /\ calls' = [calls EXCEPT ![c].pc = "done",
                    ![c].result = Rejected("CHECKSUM_MISMATCH")]
                /\ contiguous' = Broken(call.file_id)
           ELSE /\ calls' = [calls EXCEPT ![c].pc = "commit"]
                /\ contiguous' = contiguous
        /\ UNCHANGED <<fs, fileCreated, uploadComplete, issued, ops>>

\* The commit without the `start` option: the staged bytes go to the
\* beginning of the data file.
CommittedAtStart(disk, file_id, offset) ==
    LET path == filePath(file_id)
        staged == disk[tempChunkPath(file_id)].data
    IN  [disk EXCEPT ![path] = RegularFile(WriteAt(disk[path].data, 0, staged))]

\* The data file after the staged bytes were piped into it from position
\* `offset` on (flags 'r+': nothing is truncated).
Committed(disk, file_id, offset) ==
    LET path == filePath(file_id)
        staged == disk[tempChunkPath(file_id)].data
    IN  [disk EXCEPT ![path] = RegularFile(WriteAt(disk[path].data, offset, staged))]

\* The commit: the staging file is read and piped into the data file, which
\* is opened with flags 'r+' and so must exist; if it does not, or is a
\* directory, the stream emits 'error' and the call is rejected.
writeCommit(c) ==
    LET call == calls[c]
        path == filePath(call.file_id)
        tmp == tempChunkPath(call.file_id)
    IN  /\ call.op = "write" /\ call.pc = "commit"
        /\ IF ~IsFile(fs[path])
           THEN /\ fs' = fs
                /\ calls' = [calls EXCEPT ![c].pc = "done",
                                          ![c].result = Rejected("FILE_WRITE_ERROR")]
                /\ contiguous' = Broken(call.file_id)
           ELSE IF ~IsFile(fs[tmp])
           THEN /\ fs' = fs
                /\ calls' = [calls EXCEPT ![c].pc = "stalled"]
                /\ contiguous' = Broken(call.file_id)
           ELSE /\ fs' = Committed(fs, call.file_id, call.offset)
                /\ calls' = [calls EXCEPT ![c].pc = "committed"]
                /\ contiguous' = contiguous
        /\ UNCHANGED <<fileCreated, uploadComplete, issued, ops>>

\* Whether the completion check of write emits EVENT_UPLOAD_COMPLETE:
\* config && parseInt(config.upload_length, 10) === offset
UploadIsComplete(config, offset) ==
    ~config.null /\ ParseInt(config.file.upload_length) = offset

\* The 'finish' handler of the commit: the staging file is unlinked, the
\* offset advanced, the completion check made, the promise resolved.
writeCommitted(c) ==
    LET call == calls[c]
        tmp == tempChunkPath(call.file_id)
        offset == call.offset + call.new_offset
        config == getFileInfo(fs, call.file_id)
    IN  /\ call.op = "write" /\ call.pc = "committed"
        /\ fs' = IF IsFile(fs[tmp]) THEN [fs EXCEPT ![tmp] = NoEntry] ELSE fs
        /\ uploadComplete' =
              IF UploadIsComplete(config, offset)
              THEN [uploadComplete EXCEPT ![call.file_id] =
                        uploadComplete[call.file_id] + 1]
              ELSE uploadComplete
        /\ calls' = [calls EXCEPT ![c].pc = "done", ![c].offset = offset,
                                  ![c].config = config,
                                  ![c].result = ResolvedOffset(offset)]
        /\ contiguous' =
              IF contiguous[call.file_id] = call.start
              THEN [contiguous EXCEPT ![call.file_id] = offset]
              ELSE contiguous
        /\ UNCHANGED <<fileCreated, issued, ops>>

\* The caller has the outcome of the call (or has given up on a call that
\* will never settle) and the slot is free for the next call.
callReturned(c) ==
    /\ calls[c].pc \in {"done", "stalled"}
    /\ calls' = [calls EXCEPT ![c] = IdleCall]
    /\ UNCHANGED <<fs, fileCreated, uploadComplete, issued, ops, contiguous>>

\* ------------------------------------------------- external interference
\* Someone outside the store removes the regular file at an identifier's
\* data path.
externalRemove(file_id) ==
    /\ Quiet
    /\ ops < MaxOps
    /\ IsFile(fs[filePath(file_id)])
    /\ fs' = [fs EXCEPT ![filePath(file_id)] = NoEntry]
    /\ ops' = ops + 1
    /\ contiguous' = Broken(file_id)
    /\ UNCHANGED <<calls, fileCreated, uploadComplete, issued>>

\* Someone outside the store makes a directory at an identifier's data path.
externalMkdir(file_id) ==
    /\ Quiet
    /\ ops < MaxOps
    /\ fs[filePath(file_id)].kind = "ENOENT"
    /\ fs' = [fs EXCEPT ![filePath(file_id)] = Dir]
    /\ ops' = ops + 1
    /\ contiguous' = Broken(file_id)
    /\ UNCHANGED <<calls, fileCreated, uploadComplete, issued>>

\* ----------------------------------------------------------- specification
Next ==
    \/ \E c \in Calls, l \in LengthHeaders, d \in DeferHeaders,
          m \in MetadataHeaders, name \in {GenerateThrows} \cup FileIds :
            create(c, l, d, m, name)
    \/ \E c \in Calls : createOpened(c)
    \/ \E c \in Calls : createClosed(c)
    \/ \E c \in Calls, i \in FileIds, o \in Offsets, b \in Bodies,
          k \in ChecksumHeaders : write(c, i, o, b, k)
    \/ \E c \in Calls : writeStaged(c)
    \/ \E c \in Calls, k \in 0..(MaxChunk - 1) : writeSourceCut(c, k)
    \/ \E c \in Calls : writeFinish(c)
    \/ \E c \in Calls : writeHashed(c)
    \/ \E c \in Calls : writeCommit(c)
    \/ \E c \in Calls : writeCommitted(c)
    \/ \E c \in Calls, i \in FileIds : getOffset(c, i)
    \/ \E c \in Calls : getOffsetStat(c)
    \/ \E c \in Calls : callReturned(c)
    \/ \E i \in FileIds : externalRemove(i)
    \/ \E i \in FileIds : externalMkdir(i)

Spec == Init /\ [][Next]_vars

\* ------------------------------------------------------------ I/O failures
\* The same store on a filesystem whose calls can fail for reasons the
\* storage state does not show (a full disk, an I/O error, a permission).

\* fs.open calls back with an error: no file was made, and create rejects
\* with the error it was given.
createOpenError(c) ==
    LET call == calls[c]
    IN  /\ call.op = "create" /\ call.pc = "open"
        /\ calls' = [calls EXCEPT ![c].pc = "done",
                                  ![c].result = Rejected("EIO")]
        /\ UNCHANGED <<fs, fileCreated, uploadComplete, issued, ops, contiguous>>

\* fs.open succeeded, so the data file is there and empty, and
\* writeFileInfo throws: write-file-atomic leaves the target as it was, and
\* create rejects with the exception, the descriptor still open.
createInfoWriteError(c) ==
    LET call == calls[c]
        path == filePath(call.file_id)
    IN  /\ call.op = "create" /\ call.pc = "open"
        /\ fs[path].kind # "dir"
        /\ fs' = [fs EXCEPT ![path] = RegularFile(<<>>)]
        /\ calls' = [calls EXCEPT ![c].pc = "done",
                                  ![c].result = Rejected("EIO")]
        /\ UNCHANGED <<fileCreated, uploadComplete, issued, ops, contiguous>>

\* fs.close calls back with an exception: create rejects with it and emits
\* nothing; both files are there.
createCloseError(c) ==
    LET call == calls[c]
    IN  /\ call.op = "create" /\ call.pc = "close"
        /\ calls' = [calls EXCEPT ![c].pc = "done",
                                  ![c].result = Rejected("EIO")]
        /\ UNCHANGED <<fs, fileCreated, uploadComplete, issued, ops, contiguous>>

\* The staging stream emits 'error' after k bytes of the body went into the
\* staging file: the call is rejected and its 'finish' handler never runs.
writeStageError(c, k) ==
    LET call == calls[c]
    IN  /\ call.op = "write" /\ call.pc = "staging"
        /\ k \in 0..Len(call.body)
        /\ fs' = Staged(fs, call.file_id, SubSeq(call.body, 1, k))
        /\ calls' = [calls EXCEPT ![c].pc = "done", ![c].new_offset = k,
                                  ![c].result = Rejected("FILE_WRITE_ERROR")]
        /\ contiguous' = Broken(call.file_id)
        /\ UNCHANGED <<fileCreated, uploadComplete, issued, ops>>

\* The data file after the first k staged bytes were written from position
\* `offset` on.
CommittedPartly(disk, file_id, offset, k) ==
    LET path == filePath(file_id)
        staged == disk[tempChunkPath(file_id)].data
    IN  [disk EXCEPT ![path] =
            RegularFile(WriteAt(disk[path].data, offset, SubSeq(staged, 1, k)))]

\* The stream into the data file emits 'error' after k of the staged bytes
\* were written, fewer than all: the call is rejected, and nothing undoes
\* the bytes written or removes the staging file.
writeCommitError(c, k) ==
    LET call == calls[c]
        path == filePath(call.file_id)
        tmp == tempChunkPath(call.file_id)
    IN  /\ call.op = "write" /\ call.pc = "commit"
        /\ IsFile(fs[path]) /\ IsFile(fs[tmp])
        /\ k \in 0..(Len(fs[tmp].data) - 1)
        /\ fs' = CommittedPartly(fs, call.file_id, call.offset, k)
        /\ calls' = [calls EXCEPT ![c].pc = "done",
                                  ![c].result = Rejected("FILE_WRITE_ERROR")]
        /\ contiguous' = Broken(call.file_id)
        /\ UNCHANGED <<fileCreated, uploadComplete, issued, ops>>

\* What the callers send in the runs with I/O failures.
FaultIds == { <<"a">> }
FaultLengths == { <<"2">> }
FaultBodies == { <<Byte("2")>>, <<Byte("2"), Byte("1")>> }
FaultOffsets == { 0 }

NextFaults ==
    \/ \E c \in Calls, l \in FaultLengths, name \in FaultIds :
            create(c, l, Undefined, Undefined, name)
    \/ \E c \in Calls : createInfoWriteError(c)
    \/ \E c \in Calls : createOpened(c)
    \/ \E c \in Calls : createOpenError(c)
    \/ \E c \in Calls : createClosed(c)
    \/ \E c \in Calls : createCloseError(c)
    \/ \E c \in Calls, i \in FaultIds, o \in FaultOffsets, b \in FaultBodies,
          k \in ChecksumHeaders : write(c, i, o, b, k)
    \/ \E c \in Calls : writeStaged(c)
    \/ \E c \in Calls, b \in FaultBodies : \E k \in 0..Len(b) :
            writeStageError(c, k)
    \/ \E c \in Calls : writeFinish(c)
    \/ \E c \in Calls : writeHashed(c)
    \/ \E c \in Calls : writeCommit(c)
    \/ \E c \in Calls, b \in FaultBodies : \E k \in 0..Len(b) :
            writeCommitError(c, k)
    \/ \E c \in Calls : writeCommitted(c)
    \/ \E c \in Calls, i \in FaultIds : getOffset(c, i)
    \/ \E c \in Calls : getOffsetStat(c)
    \/ \E c \in Calls : callReturned(c)

SpecFaults == Init /\ [][NextFaults]_vars

\* ------------------------------------------------------- overlapping calls
\* The same store with two calls under way at once: each handler runs to
\* its end, and the handlers of the two calls interleave in any order.
ConcurrentCalls == {1, 2}

\* What the callers send in the runs with overlapping calls.
ConcurrentLengths == { <<"1">> }
ConcurrentBodies == { <<Byte("1")>>, <<Byte("2")>> }
ConcurrentOffsets == { 0 }
ConcurrentChecksums == { Undefined, <<"sha1", " ">> \o DeclaredDigest }

InitConcurrent ==
    /\ fs = [p \in Paths |-> NoEntry]
    /\ calls = [c \in ConcurrentCalls |-> IdleCall]
    /\ fileCreated = [i \in FileIds |-> 0]
    /\ uploadComplete = [i \in FileIds |-> 0]
    /\ issued = {}
    /\ ops = 0
    /\ contiguous = [i \in FileIds |-> -1]

NextConcurrent ==
    \/ \E c \in ConcurrentCalls, l \in ConcurrentLengths, name \in FileIds :
            create(c, l, Undefined, Undefined, name)
    \/ \E c \in ConcurrentCalls : createOpened(c)
    \/ \E c \in ConcurrentCalls : createClosed(c)
    \/ \E c \in ConcurrentCalls, i \in FileIds, o \in ConcurrentOffsets,
          b \in ConcurrentBodies, k \in ConcurrentChecksums :
            write(c, i, o, b, k)
    \/ \E c \in ConcurrentCalls : writeStaged(c)
    \/ \E c \in ConcurrentCalls : writeFinish(c)
    \/ \E c \in ConcurrentCalls : writeHashed(c)
    \/ \E c \in ConcurrentCalls : writeCommit(c)
    \/ \E c \in ConcurrentCalls : writeCommitted(c)
    \/ \E c \in ConcurrentCalls : callReturned(c)

SpecConcurrent == InitConcurrent /\ [][NextConcurrent]_vars

\* ------------------------------------------------------------------ claims
\* What a write call declares in its Upload-Checksum header.
DeclaresChecksum(call) ==
    call.op = "write" /\ call.headers.upload_checksum # Undefined
DeclaredAlgorithm(call) == At(Split(call.headers.upload_checksum, " "), 0)
DeclaredValue(call) == At(Split(call.headers.upload_checksum, " "), 1)

\* The data artifact of the call's upload, and what getOffset reports for
\* it, are as they were when the call began.
DataUntouched(call) ==
    /\ fs[filePath(call.file_id)] = call.pre.node
    /\ GetOffsetNow(fs, call.file_id) = call.pre.view

\* A write call that declares sha1 with a digest that is not the digest of
\* the bytes it sends.
WrongDigest(call) ==
    /\ DeclaresChecksum(call)
    /\ DeclaredAlgorithm(call) = <<"sha1">>
    /\ DeclaredValue(call) # Sha1Base64(call.body)

\* C1: a write call that declares the supported algorithm with a digest
\* other than the digest of the bytes received never resolves; once its
\* bytes are staged it ends rejected with CHECKSUM_MISMATCH; and from its
\* first step to its last the data artifact of the upload and the offset
\* getOffset reports are as they were before the call.
C1_WrongDigestRejectedDataUntouched ==
    \A c \in Calls :
        WrongDigest(calls[c]) =>
            /\ calls[c].result.state # "resolved"
            /\ (calls[c].staged /\ calls[c].pc = "done") =>
                    calls[c].result = Rejected("CHECKSUM_MISMATCH")
            /\ DataUntouched(calls[c])

\* C1 happens: a call with a wrong digest was rejected with
\* CHECKSUM_MISMATCH on an upload that holds data.
C1_Witness ==
    \E c \in Calls :
        /\ WrongDigest(calls[c])
        /\ calls[c].pc = "done"
        /\ calls[c].result = Rejected("CHECKSUM_MISMATCH")
        /\ IsFile(calls[c].pre.node)
        /\ Len(calls[c].pre.node.data) >= 1
        /\ Len(calls[c].body) >= 1

\* A write call that declares an algorithm other than sha1.
OtherAlgorithm(call) ==
    /\ DeclaresChecksum(call)
    /\ DeclaredAlgorithm(call) # <<"sha1">>

\* C8: a write call that declares an algorithm other than the supported one
\* never resolves and is never rejected with CHECKSUM_MISMATCH, whatever
\* digest it declares; once its bytes are staged it ends rejected with
\* CHECKSUM_ALGORITHM_UNSUPPORTED; and the data artifact is not modified.
C8_OtherAlgorithmUnsupported ==
    \A c \in Calls :
        OtherAlgorithm(calls[c]) =>
            /\ calls[c].result.state # "resolved"
            /\ calls[c].result # Rejected("CHECKSUM_MISMATCH")
            /\ (calls[c].staged /\ calls[c].pc = "done") =>
                    calls[c].result = Rejected("CHECKSUM_ALGORITHM_UNSUPPORTED")
            /\ DataUntouched(calls[c])

\* C8 happens: a call declaring another algorithm, with the right digest
\* of its bytes, was rejected as unsupported on an upload that holds data.
C8_Witness ==
    \E c \in Calls :
        /\ OtherAlgorithm(calls[c])
        /\ DeclaredValue(calls[c]) = Sha1Base64(calls[c].body)
        /\ calls[c].pc = "done"
        /\ calls[c].result = Rejected("CHECKSUM_ALGORITHM_UNSUPPORTED")
        /\ IsFile(calls[c].pre.node)
        /\ Len(calls[c].pre.node.data) >= 1

\* A write call that has resolved.
WriteResolved(call) ==
    call.op = "write" /\ call.pc = "done" /\ call.result.state = "resolved"

\* C4: a write call that resolves, having sent n bytes from starting offset
\* o, resolves with o + n, and the data artifact then holds the bytes sent
\* at positions [o, o + n), the bytes it held before the call at every other
\* position it had, and zero bytes in the hole between its old end and o
\* (no hole when n is 0: nothing is written then).
C4_WriteCommitsReceivedBytes ==
    \A c \in Calls :
        WriteResolved(calls[c]) =>
            LET call == calls[c]
                o == call.start
                n == Len(call.body)
                old == call.pre.node.data
                now == fs[filePath(call.file_id)]
            IN  /\ call.result.offset = o + n
                /\ IsFile(call.pre.node)
                /\ IsFile(now)
                /\ Len(now.data) =
                      (IF Len(old) > o + n \/ n = 0 THEN Len(old) ELSE o + n)
                /\ \A i \in 1..Len(now.data) :
                      now.data[i] =
                          IF i > o /\ i <= o + n THEN call.body[i - o]
                          ELSE IF i <= Len(old) THEN old[i]
                          ELSE ZeroByte

\* C4 happens: a resolved write with a correct checksum put bytes into the
\* middle of an artifact that holds a byte after the written range.
C4_Witness ==
    \E c \in Calls :
        /\ WriteResolved(calls[c])
        /\ DeclaresChecksum(calls[c])
        /\ Len(calls[c].body) >= 1
        /\ Len(calls[c].pre.node.data) > calls[c].start + Len(calls[c].body)

CreateResolved(call) ==
    call.op = "create" /\ call.pc = "done" /\ call.result.state = "resolved"

\* C5: when create has resolved (and nothing else has happened since),
\* getOffset on the identifier of the record it returned resolves with size
\* 0 and with the upload_length and upload_defer_length sent to create.
C5_CreateThenGetOffset ==
    \A c \in Calls :
        CreateResolved(calls[c]) =>
            LET view == GetOffsetNow(fs, calls[c].result.file.id)
            IN  /\ view.state = "resolved"
                /\ view.stats.size = 0
                /\ view.stats.upload_length = calls[c].headers.upload_length
                /\ view.stats.upload_defer_length =
                      calls[c].headers.upload_defer_length

\* C5 happens: a create that was sent the deferred flag has resolved.
C5_Witness ==
    \E c \in Calls :
        /\ CreateResolved(calls[c])
        /\ calls[c].headers.upload_defer_length # Undefined
        /\ calls[c].headers.upload_length = Undefined

\* C2: the "upload complete" notification is emitted at most once in the
\* lifetime of an upload, whatever writes are made on it.
C2_CompleteAtMostOnce ==
    \A i \in FileIds : uploadComplete[i] <= 1

\* The declared length of an upload, as its metadata artifact gives it (NaN
\* when there is none).
DeclaredLength(file_id) ==
    ParseInt(getFileInfo(fs, file_id).file.upload_length)

\* C3: for an upload with a declared length L whose writes since create
\* have all resolved, each starting where the one before ended, the first
\* at 0: while their sizes sum to less than L no "upload complete"
\* notification has been emitted, and when they sum to L exactly one has.
C3_ContiguousWritesCompleteOnce ==
    \A i \in FileIds :
        (contiguous[i] >= 0 /\ DeclaredLength(i) # NaN) =>
            /\ contiguous[i] < DeclaredLength(i) => uploadComplete[i] = 0
            /\ contiguous[i] = DeclaredLength(i) => uploadComplete[i] = 1

\* Exactly one of Upload-Length and Upload-Defer-Length was sent.
ExactlyOneLength(headers) ==
    (headers.upload_length = Undefined) # (headers.upload_defer_length = Undefined)

\* The naming function threw (create then rejects before it touches the
\* storage).
NamingThrew(call) ==
    call.file_id = Undefined /\ call.result = Rejected("FILE_WRITE_ERROR")

\* C6: create resolves only when exactly one of the declared length and
\* the deferred flag is sent; sent neither or both (and the naming function
\* not failing), it is rejected with INVALID_LENGTH before an identifier is
\* generated, so that it creates no artifact.
C6_ExactlyOneLengthOrInvalid ==
    \A c \in Calls :
        (calls[c].op = "create" /\ calls[c].pc = "done"
            /\ ~ExactlyOneLength(calls[c].headers) /\ ~NamingThrew(calls[c])) =>
                /\ calls[c].result = Rejected("INVALID_LENGTH")
                /\ calls[c].file_id = Undefined

\* C7: a getOffset call ends rejected with FILE_NOT_FOUND when its
\* identifier was never generated for a create, rejected with
\* FILE_NO_LONGER_EXISTS when the metadata artifact is there and the data
\* artifact is not, and rejected with FILE_NOT_FOUND when the data path is
\* a directory.
C7_GetOffsetErrors ==
    \A c \in Calls :
        (calls[c].op = "getOffset" /\ calls[c].pc = "done") =>
            LET id == calls[c].file_id
                data == fs[filePath(id)]
            IN  /\ id \notin issued =>
                      calls[c].result = Rejected("FILE_NOT_FOUND")
                /\ (IsFile(fs[infoPath(id)]) /\ data.kind = "ENOENT") =>
                      calls[c].result = Rejected("FILE_NO_LONGER_EXISTS")
                /\ data.kind = "dir" =>
                      calls[c].result = Rejected("FILE_NOT_FOUND")

\* C10: a write call whose request was cut short has ended rejected, its
\* staging artifact is gone and the data artifact is as it was before the
\* call.  (After the cut no handler of the call is left to run: the state
\* the cut leaves is the state the call ends in.)
C10_CutShortFailsCleanly ==
    \A c \in Calls :
        (calls[c].op = "write" /\ calls[c].cut) =>
            /\ calls[c].result.state = "rejected"
            /\ fs[tempChunkPath(calls[c].file_id)].kind = "ENOENT"
            /\ fs[filePath(calls[c].file_id)] = calls[c].pre.node

\* A create call that was rejected after its identifier was generated: an
\* I/O step of it failed.
CreateFailedOnIO(call) ==
    /\ call.op = "create" /\ call.pc = "done"
    /\ call.result.state = "rejected"
    /\ call.file_id # Undefined

\* C11: a create call that fails on I/O, while it makes the data artifact
\* or persists the metadata record, is rejected with FILE_WRITE_ERROR, and
\* then there is neither a data artifact nor a metadata artifact for the
\* identifier it generated, and getOffset on it is rejected.
C11_CreateIOFailureLeavesNothing ==
    \A c \in Calls :
        CreateFailedOnIO(calls[c]) =>
            /\ calls[c].result = Rejected("FILE_WRITE_ERROR")
            /\ ~IsFile(fs[filePath(calls[c].file_id)])
            /\ ~IsFile(fs[infoPath(calls[c].file_id)])
            /\ GetOffsetNow(fs, calls[c].file_id).state = "rejected"

\* A step of a getOffset call in slot c: the call begins, or its fs.stat
\* calls back.
GetOffsetStep(c) ==
    /\ calls'[c].op = "getOffset"
    /\ calls'[c] # calls[c]

\* C12: no step of a getOffset call changes anything in the storage (data,
\* metadata or staging artifact) or emits a notification, and the outcome
\* of the call is the one the storage it leaves determines, so that calling
\* it again with no write in between gives the same offset.
C12_GetOffsetNoSideEffects ==
    [][\A c \in Calls :
          GetOffsetStep(c) =>
              /\ fs' = fs
              /\ fileCreated' = fileCreated
              /\ uploadComplete' = uploadComplete
              /\ calls'[c].pc = "done" =>
                    calls'[c].result = GetOffsetNow(fs', calls'[c].file_id)]_vars

\* C12 happens: getOffset has resolved on an upload that holds data.
C12_Witness ==
    \E c \in Calls :
        /\ calls[c].op = "getOffset" /\ calls[c].pc = "done"
        /\ calls[c].result.state = "resolved"
        /\ calls[c].result.stats.size >= 1
        /\ calls[c].result.stats.upload_length # Undefined

\* C13: in a write call, a step that changes the data artifact of the
\* call's upload is taken only after staging has finished (the whole body
\* is in the staging artifact) and, when the call declares a checksum, only
\* when the algorithm is the supported one and the declared digest is the
\* digest of the staged bytes.
C13_StageVerifyCommitInOrder ==
    [][\A c \in Calls :
          LET call == calls[c]
              path == filePath(call.file_id)
              tmp == tempChunkPath(call.file_id)
          IN  (call.op = "write" /\ fs'[path] # fs[path]) =>
                  /\ call.staged /\ ~call.cut
                  /\ IsFile(fs[tmp]) /\ fs[tmp].data = call.body
                  /\ DeclaresChecksum(call) =>
                        /\ DeclaredAlgorithm(call) = <<"sha1">>
                        /\ DeclaredValue(call) = Sha1Base64(fs[tmp].data)]_vars

\* C13 happens: a call that declared a checksum has committed its bytes
\* over data the upload already held.
C13_Witness ==
    \E c \in Calls :
        /\ calls[c].op = "write" /\ calls[c].pc = "committed"
        /\ DeclaresChecksum(calls[c])
        /\ Len(calls[c].body) >= 1
        /\ Len(calls[c].pre.node.data) >= 1
        /\ fs[filePath(calls[c].file_id)] # calls[c].pre.node

\* A write call that has ended rejected.
WriteRejected(call) ==
    call.op = "write" /\ call.pc = "done" /\ call.result.state = "rejected"

\* C14: when a write call has ended rejected, whatever the error
\* (unsupported algorithm, digest mismatch, or FILE_WRITE_ERROR from a
\* failure while staging or committing), the data artifact of its upload
\* is byte for byte what it was when the call began.
C14_FailedWriteLeavesData ==
    \A c \in Calls :
        WriteRejected(calls[c]) =>
            fs[filePath(calls[c].file_id)] = calls[c].pre.node

\* A write call that has ended rejected by the verification of its checksum.
VerificationFailed(call) ==
    /\ WriteRejected(call)
    /\ call.result.error \in {"CHECKSUM_MISMATCH", "CHECKSUM_ALGORITHM_UNSUPPORTED"}

\* C15: when a write call has ended rejected by verification (digest
\* mismatch or unsupported algorithm), no staging artifact of its
\* identifier is left in the storage.
C15_VerificationFailureDiscardsStaged ==
    \A c \in Calls :
        VerificationFailed(calls[c]) =>
            fs[tempChunkPath(calls[c].file_id)].kind = "ENOENT"

\* A write call between its first step and its last.
WriteUnderWay(call) ==
    /\ call.op = "write"
    /\ call.pc \in {"staging", "finish", "hash", "commit", "committed"}

\* C16: the store does not serialize the writes of one identifier: while a
\* write call on an identifier is under way, at any of its steps, another
\* write call on the same identifier can begin (and it opens, and so
\* empties, the same staging artifact); and a call that resolves returns
\* its starting offset plus the bytes it received itself, whatever was
\* committed.  The interleaving that corrupts is C16_Witness.
C16_WritesNotSerialized ==
    /\ \A c1 \in ConcurrentCalls, c2 \in ConcurrentCalls :
          (c1 # c2 /\ WriteUnderWay(calls[c1]) /\ calls[c2].pc = "idle"
                /\ ops < MaxOps) =>
              ENABLED write(c2, calls[c1].file_id, calls[c1].start,
                            calls[c1].body, Undefined)
    /\ \A c \in ConcurrentCalls :
          WriteResolved(calls[c]) =>
              calls[c].result.offset = calls[c].start + Len(calls[c].body)

\* C16 happens: a call whose declared digest was the digest of its own
\* bytes has committed, while another write call on the same identifier is
\* under way and has not committed, and the data artifact is not what
\* committing the call's own bytes gives.
C16_Witness ==
    \E c1 \in ConcurrentCalls, c2 \in ConcurrentCalls :
        /\ c1 # c2
        /\ calls[c1].op = "write" /\ calls[c1].pc = "committed"
        /\ DeclaresChecksum(calls[c1])
        /\ DeclaredValue(calls[c1]) = Sha1Base64(calls[c1].body)
        /\ calls[c2].op = "write"
        /\ calls[c2].pc \in {"staging", "finish", "hash", "commit"}
        /\ calls[c2].file_id = calls[c1].file_id
        /\ IsFile(calls[c1].pre.node)
        /\ fs[filePath(calls[c1].file_id)] #
              RegularFile(WriteAt(calls[c1].pre.node.data, calls[c1].start,
                                  calls[c1].body))

\* A step of a write call in slot c: the call begins, or one of its
\* handlers runs.
WriteStep(c) ==
    /\ calls'[c].op = "write"
    /\ calls'[c] # calls[c]

\* The artifacts of an identifier: its data, metadata and staging paths.
Artifacts(file_id) ==
    {filePath(file_id), infoPath(file_id), tempChunkPath(file_id)}

\* C17: at every step of a write call on an identifier B, whatever the
\* other calls are doing, for every upload A other than B that a create
\* has made: the staging artifact of B is none of the artifacts of A, and
\* the data artifact, the metadata artifact and what getOffset reports for
\* A are after the step what they were before it.
C17_DifferentIdsNeverCollide ==
    [][\A c \in ConcurrentCalls :
          WriteStep(c) =>
              \A A \in FileIds \ {calls'[c].file_id} :
                  fileCreated[A] >= 1 =>
                      /\ tempChunkPath(calls'[c].file_id) \notin Artifacts(A)
                      /\ fs'[filePath(A)] = fs[filePath(A)]
                      /\ fs'[infoPath(A)] = fs[infoPath(A)]
                      /\ GetOffsetNow(fs', A) = GetOffsetNow(fs, A)]_vars

\* A step of the store (of one of its calls), as against a step of someone
\* outside it.
StoreStep == calls' # calls

\* The step is the commit of a write call: the staged bytes go into the
\* data file.
CommitStep ==
    \E c \in Calls :
        /\ calls[c].op = "write" /\ calls[c].pc = "commit"
        /\ calls'[c] # calls[c]

\* C18: for an upload that create has made, no later step of the store
\* (of a write or getOffset call, successful or not) changes the metadata
\* artifact, which reads as the record create returned; and no step of the
\* store other than the commit of a write changes its data artifact while
\* that exists.
C18_MetadataWriteOnceDataByCommit ==
    [][StoreStep =>
          \A i \in FileIds :
              fileCreated[i] >= 1 =>
                  /\ fs'[infoPath(i)] = fs[infoPath(i)]
                  /\ getFileInfo(fs', i) = getFileInfo(fs, i)
                  /\ (IsFile(fs[filePath(i)]) /\ ~CommitStep) =>
                        fs'[filePath(i)] = fs[filePath(i)]]_vars

\* C19: the created notification of an identifier has been emitted once
\* when a create call that generated it has resolved, and not at all
\* before that or when the call is rejected; and in the state it is
\* emitted in, the data and the metadata artifact are there, so that
\* getOffset issued then resolves with size 0 and the record of the call.
C19_CreatedOncePerSuccess ==
    /\ \A c \in Calls :
          (calls[c].op = "create" /\ calls[c].file_id # Undefined) =>
              LET id == calls[c].file_id
                  view == GetOffsetNow(fs, id)
              IN  /\ CreateResolved(calls[c]) <=> fileCreated[id] = 1
                  /\ ~CreateResolved(calls[c]) => fileCreated[id] = 0
                  /\ CreateResolved(calls[c]) =>
                        /\ IsFile(fs[filePath(id)])
                        /\ getFileInfo(fs, id) =
                              [null |-> FALSE, file |-> calls[c].result.file]
                        /\ view.state = "resolved"
                        /\ view.stats.size = 0
    /\ \A i \in FileIds : fileCreated[i] <= 1
    /\ \A i \in FileIds : i \notin issued => fileCreated[i] = 0

\* C19 happens: a create call has resolved and its notification is out.
C19_Witness ==
    \E c \in Calls :
        /\ CreateResolved(calls[c])
        /\ calls[c].headers.upload_length # Undefined
        /\ fileCreated[calls[c].file_id] = 1

\* A write call on an identifier that had no data artifact when the call
\* began.
WriteWithoutData(call) ==
    call.op = "write" /\ call.pre.node.kind = "ENOENT"

\* C20: a write call on an identifier that has no data artifact ends
\* rejected with FILE_WRITE_ERROR; it never gets to the end of a commit
\* (where the upload complete notification is emitted) and never resolves;
\* no data artifact is made for the identifier; and getOffset on it is
\* rejected as it was before the call.
C20_WriteWithoutDataFails ==
    \A c \in Calls :
        WriteWithoutData(calls[c]) =>
            /\ calls[c].pc \in {"done", "stalled"} =>
                  calls[c].result = Rejected("FILE_WRITE_ERROR")
            /\ calls[c].pc # "committed"
            /\ calls[c].result.state # "resolved"
            /\ fs[filePath(calls[c].file_id)].kind = "ENOENT"
            /\ GetOffsetNow(fs, calls[c].file_id) = calls[c].pre.view

====
